---- MODULE Spec2Model ----
(***************************************************************************)
(* Model of git-ai-commit (src/ai-commit.py): one invocation of main().    *)
(*                                                                         *)
(* Text is modelled structurally.  A one-line string (a commit subject, a  *)
(* forwarded command-line argument) is a sequence of one-character         *)
(* strings; a multi-line text is a sequence of lines.  Fixed literals of   *)
(* the program are single atoms.  JSON values are tagged records.          *)
(***************************************************************************)
EXTENDS Integers, Sequences, FiniteSets, TLC

\* ------------------------------------------------------------------ bounds
MaxCommits == 2     \* longest repository history of the end-to-end runs
MaxArgs == 1        \* most forwarded (unrecognised) arguments
MaxLog == 27        \* longest repository history of the analysis runs
MaxClock == 1       \* largest reading of the wall clock

\* -------------------------------------------------------- program constants
ExampleLimit == 25      \* subjects[:25]
TopPrefixLimit == 10    \* sorted_prefixes[:10]
SummaryLimit == 5       \* detected[:5]
FallbackDepth == 10     \* git log -n 10
DefaultDepth == 1000    \* --history-depth default

\* ------------------------------------------------------------ generic text
Min(a, b) == IF a < b THEN a ELSE b

Take(s, n) == SubSeq(s, 1, Min(n, Len(s)))

\* characters that str.strip() removes, as far as the modelled inputs go
Whitespace == {" ", "\t"}

IsBlank(s) == \A i \in 1..Len(s) : s[i] \in Whitespace

RECURSIVE SelectNonBlank(_)
\* [s for s in lines if s.strip()]
SelectNonBlank(lines) ==
    IF lines = <<>> THEN <<>>
    ELSE IF IsBlank(Head(lines)) THEN SelectNonBlank(Tail(lines))
    ELSE <<Head(lines)>> \o SelectNonBlank(Tail(lines))

RECURSIVE LStrip(_)
\* one line without its leading whitespace
LStrip(s) ==
    IF s = <<>> THEN <<>>
    ELSE IF Head(s) \in Whitespace THEN LStrip(Tail(s))
    ELSE s

RECURSIVE RStrip(_)
\* one line without its trailing whitespace
RStrip(s) ==
    IF s = <<>> THEN <<>>
    ELSE IF s[Len(s)] \in Whitespace THEN RStrip(SubSeq(s, 1, Len(s) - 1))
    ELSE s

RECURSIVE StripLeft(_)
\* a text without its leading whitespace: blank lines go, the first line
\* that stays loses its indentation
StripLeft(lines) ==
    IF lines = <<>> THEN <<>>
    ELSE IF IsBlank(Head(lines)) THEN StripLeft(Tail(lines))
    ELSE <<LStrip(Head(lines))>> \o Tail(lines)

RECURSIVE StripRight(_)
StripRight(lines) ==
    IF lines = <<>> THEN <<>>
    ELSE IF IsBlank(lines[Len(lines)]) THEN StripRight(SubSeq(lines, 1, Len(lines) - 1))
    ELSE SubSeq(lines, 1, Len(lines) - 1) \o <<RStrip(lines[Len(lines)])>>

\* str.strip() of a text given as its lines
StripText(lines) == StripRight(StripLeft(lines))

StartsWith(s, p) == Len(s) >= Len(p) /\ SubSeq(s, 1, Len(p)) = p

Lower(c) ==
    CASE c = "Y" -> "y"
      [] c = "N" -> "n"
      [] c = "E" -> "e"
      [] OTHER -> c

\* ------------------------------------------------------- prefix detection
TokenChars ==
    {"a","b","c","d","e","f","g","h","i","j","k","l","m","n","o","p","q","r",
     "s","t","u","v","w","x","y","z",
     "A","B","C","D","E","F","G","H","I","J","K","L","M","N","O","P","Q","R",
     "S","T","U","V","W","X","Y","Z",
     "0","1","2","3","4","5","6","7","8","9","_","-"}

RECURSIVE TokenLen(_)
\* length of the longest leading run of [A-Za-z0-9_-]
TokenLen(s) ==
    IF s = <<>> THEN 0
    ELSE IF Head(s) \in TokenChars THEN 1 + TokenLen(Tail(s))
    ELSE 0

\* PrefixMatches that takes any leading token for a prefix
PrefixMatches_NoColon(s) == TokenLen(s) >= 1

\* prefix_re.match(s): ^(?P<prefix>[A-Za-z0-9_-]+):
PrefixMatches(s) ==
    LET n == TokenLen(s) IN n >= 1 /\ Len(s) > n /\ s[n + 1] = ":"

PrefixOf(s) == SubSeq(s, 1, TokenLen(s))

RECURSIVE Bump(_, _)
\* prefixes[p] = prefixes.get(p, 0) + 1, keeping the dict's insertion order
Bump(prefixes, p) ==
    IF prefixes = <<>> THEN << [p |-> p, n |-> 1] >>
    ELSE IF Head(prefixes).p = p
         THEN << [p |-> p, n |-> Head(prefixes).n + 1] >> \o Tail(prefixes)
         ELSE << Head(prefixes) >> \o Bump(Tail(prefixes), p)

RECURSIVE CountPrefixes(_, _)
CountPrefixes(subjects, prefixes) ==
    IF subjects = <<>> THEN prefixes
    ELSE CountPrefixes(Tail(subjects),
                       IF PrefixMatches(Head(subjects))
                       THEN Bump(prefixes, PrefixOf(Head(subjects)))
                       ELSE prefixes)

RECURSIVE InsertByCount(_, _)
\* insert behind every entry whose count is not smaller: a stable descending sort
InsertByCount(sorted, e) ==
    IF sorted = <<>> THEN <<e>>
    ELSE IF Head(sorted).n >= e.n THEN <<Head(sorted)>> \o InsertByCount(Tail(sorted), e)
    ELSE <<e>> \o sorted

RECURSIVE SortByCount(_, _)
\* sorted(prefixes.items(), key=lambda x: x[1], reverse=True)
SortByCount(items, acc) ==
    IF items = <<>> THEN acc
    ELSE SortByCount(Tail(items), InsertByCount(acc, Head(items)))

RECURSIVE SumLen(_)
SumLen(subjects) ==
    IF subjects = <<>> THEN 0 ELSE Len(Head(subjects)) + SumLen(Tail(subjects))

\* float(sum(len(s) for s in subjects) / count) if count > 0 else 0.0,
\* kept as the exact fraction num/den
AvgLen(subjects) ==
    IF Len(subjects) > 0 THEN [num |-> SumLen(subjects), den |-> Len(subjects)]
    ELSE [num |-> 0, den |-> 1]

\* ------------------------------------------------------------ JSON values
\* what json.load can return, and None for a failed load
JNull == [t |-> "null"]
JNum(n) == [t |-> "num", v |-> n]
JStr(s) == [t |-> "str", v |-> s]
JList(l) == [t |-> "list", v |-> l]
JDict(d) == [t |-> "dict", v |-> d]

EmptyDict == [k \in {} |-> 0]

\* Python truth value of a loaded JSON value
Truthy(j) ==
    CASE j.t = "null" -> FALSE
      [] j.t = "num" -> j.v # 0
      [] j.t = "str" -> Len(j.v) > 0
      [] j.t = "list" -> Len(j.v) > 0
      [] j.t = "dict" -> DOMAIN j.v # {}

IsDict(j) == j.t = "dict"

\* optional values: None and a present value
None == [some |-> FALSE]
Some(x) == [some |-> TRUE, val |-> x]

\* Python truth value of an optional text
TruthyText(o) == o.some /\ Len(o.val) > 0

\* dict.get(key, default)
Get(d, key, default) == IF key \in DOMAIN d THEN d[key] ELSE default

\* d[key] = value
Put(d, key, value) ==
    [k \in DOMAIN d \cup {key} |-> IF k = key THEN value ELSE d[k]]

\* --------------------------------------------------------------- analysis
\* the profile analyze_repo builds from the subjects read at time now
BuildProfile(raw, now) ==
    LET subjects == SelectNonBlank(raw)
        prefixes == CountPrefixes(subjects, <<>>)
        sorted_prefixes == SortByCount(prefixes, <<>>)
        top == Take(sorted_prefixes, TopPrefixLimit)
    IN  [created_at |-> now,
         commit_count_scanned |-> Len(subjects),
         history_examples |-> Take(subjects, ExampleLimit),
         detected_types |-> prefixes,
         top_prefixes |-> [i \in 1..Len(top) |-> top[i].p],
         avg_subject_len |-> AvgLen(subjects)]

\* ------------------------------------------------------------------ inputs
\* commit subjects
FixA == <<"f","i","x",":"," ","a">>
FeatB == <<"f","e","a","t",":"," ","b">>
Wip == <<"w","i","p">>
NoToken == <<":","x">>
Spaced == <<"f","i","x"," ",":","a">>
EmptySubject == <<>>
BlankSubject == <<" ">>

\* the i-th most recent commit of the repositories of the end-to-end runs
SubjectAt(i) ==
    CASE i % 4 = 1 -> FixA
      [] i % 4 = 2 -> EmptySubject
      [] i % 4 = 3 -> FeatB
      [] OTHER -> FixA

LogOfLength(k) == [i \in 1..k |-> SubjectAt(i)]

Histories == { LogOfLength(k) : k \in 0..MaxCommits }

\* --history-depth values
Depths == {0, DefaultDepth}

\* --guidelines references
UrlRef == <<"h","t","t","p","s",":","/","/","h">>
FileRef == <<"G",".","m","d">>
InlineRef == <<"i","m","p","e","r","a","t","i","v","e">>
GuidelineArgs == {None, Some(<<>>), Some(UrlRef), Some(FileRef), Some(InlineRef)}

\* paths for which os.path.exists holds
ExistingPaths == {FileRef}

\* what a guidelines file or a fetched resource can hold
GuidelineBodies == {<<>>, <<"b","o","d","y">>}

\* the guidelines of a cached profile that has them
CachedGuidelines == <<"o","l","d">>

\* forwarded arguments
ArgM == <<"-","m">>
ArgS == <<"-","s">>
ArgTokens == {ArgM, ArgS}

RECURSIVE SeqsUpTo(_, _)
SeqsUpTo(S, n) ==
    IF n = 0 THEN {<<>>}
    ELSE LET shorter == SeqsUpTo(S, n - 1)
         IN  shorter \cup { Append(q, x) : q \in shorter, x \in S }

ForwardedArgs == SeqsUpTo(ArgTokens, MaxArgs)

\* parse_known_args results
ArgSpace ==
    [auto_commit : BOOLEAN, dry_run : BOOLEAN, analyze : BOOLEAN,
     force_analyze : BOOLEAN, history_depth : Depths,
     guidelines : GuidelineArgs, unknown_args : ForwardedArgs]

\* a profile written by an earlier run, without and with guidelines
OldProfile == BuildProfile(<<Wip, FeatB>>, 0)
OldProfileG == Put(OldProfile, "commit_guidelines", CachedGuidelines)

\* the cache file: absent, not JSON (or not readable), or a JSON document
CacheFiles ==
    { [kind |-> "missing"], [kind |-> "notjson"] }
    \cup { [kind |-> "json", val |-> j] :
             j \in { JNum(5), JStr(<<"x">>), JList(<<1>>), JDict(EmptyDict),
                     JDict(OldProfile), JDict(OldProfileG) } }

\* git diff --staged output
DiffText == << <<"+","p","r","i","n","t","(","'","h","i","'",")">> >>
Diffs == {<<>>, <<BlankSubject>>, DiffText}

\* the text the service answers with
Responses == { << FeatB >> }

Clock == 1..MaxClock

\* ------------------------------------------------------------------- state
VARIABLES
    pc,                 \* where main() stands
    exit_code,          \* the process's exit status, -1 while running
    ending,             \* the last notice printed: why the run ended
    args,               \* parse_known_args result
    repo_log,           \* subjects of the repository, most recent first
    cache_file,         \* the file at args.cache_file
    cache_file0,        \* that file when the run started
    cache_reads,        \* calls of load_style_cache
    staged_diff,
    profile,
    commit_history,
    guidelines_text,
    suggested_message,
    presented,          \* the suggestion was printed
    commands,           \* external commands issued, in order
    generator_calls,    \* calls of generate_commit_message, in order
    tmp_files,          \* temporary files that exist
    returncode,         \* result.returncode of the editor commit, -1 before
    cache_writes,       \* how each call of save_style_cache ended, in order
    user_approval       \* the lowered answer at the confirmation prompt

vars == <<pc, exit_code, ending, args, repo_log, cache_file, cache_file0,
          cache_reads, staged_diff, profile, commit_history, guidelines_text,
          suggested_message, presented, commands, generator_calls, tmp_files,
          returncode, cache_writes, user_approval>>

Running == -1

InitLocals ==
    /\ pc = "start"
    /\ exit_code = Running
    /\ ending = "none"
    /\ cache_file0 = cache_file
    /\ cache_reads = 0
    /\ staged_diff = <<>>
    /\ profile = JNull
    /\ commit_history = <<>>
    /\ guidelines_text = None
    /\ suggested_message = <<>>
    /\ presented = FALSE
    /\ commands = <<>>
    /\ generator_calls = <<>>
    /\ tmp_files = {}
    /\ returncode = Running
    /\ cache_writes = <<>>
    /\ user_approval = None

Init ==
    /\ args \in ArgSpace
    /\ repo_log \in Histories
    /\ cache_file \in CacheFiles
    /\ InitLocals

\* sys.exit(code) after the notice that names the reason
Exit(code, why) == pc' = "done" /\ exit_code' = code /\ ending' = why

\* ----------------------------------------------------------- git commands
\* an external command as issued: what it is, its arguments, the text piped
\* to its standard input (None when nothing is piped)
Cmd(name, argv, stdin) == [name |-> name, argv |-> argv, stdin |-> stdin]

\* run_command on git log -n depth: the command fails in a repository
\* without commits, otherwise it prints the subjects, which are stripped
GitLog(log, depth) ==
    IF log = <<>> THEN [ok |-> FALSE, out |-> <<>>]
    ELSE [ok |-> TRUE, out |-> StripText(Take(log, depth))]

\* ------------------------------------------------------------- style cache
\* load_style_cache: any failure to open or parse yields None
LoadStyleCache(file) == IF file.kind = "json" THEN file.val ELSE JNull

\* how a write of the cache file can end: written; refused before the file
\* is touched (makedirs or open fails); broken off after open truncated it
SaveOutcomes == {"ok", "denied", "partial"}

\* save_style_cache: the file afterwards
SaveStyleCache(file, prof, outcome) ==
    CASE outcome = "ok" -> [kind |-> "json", val |-> JDict(prof)]
      [] outcome = "denied" -> file
      [] outcome = "partial" -> [kind |-> "notjson"]

\* analyze_repo: the profile it returns, the cache file it leaves and the
\* command it runs
AnalyzeRepo(file, log0, history_depth, now, outcome) ==
    LET log == GitLog(log0, history_depth)
        raw == IF log.ok THEN log.out ELSE <<>>
        prof == BuildProfile(raw, now)
    IN  [profile |-> prof,
         file |-> SaveStyleCache(file, prof, outcome),
         command |-> Cmd("log", <<history_depth>>, None)]

RECURSIVE Join(_, _)
\* sep.join(parts) for one-line parts
Join(parts, sep) ==
    IF parts = <<>> THEN <<>>
    ELSE IF Len(parts) = 1 THEN Head(parts)
    ELSE Head(parts) \o sep \o Join(Tail(parts), sep)

DetectedLabel == "Detected prefixes: "
NoHistory == << <<"No previous commits found. This is likely the initial commit.">> >>

\* the history context taken from a cached profile
ProfileContext(d) ==
    LET examples == Get(d, "history_examples", <<>>)
        detected == Get(d, "top_prefixes", <<>>)
        summary == IF Len(detected) > 0
                   THEN << <<DetectedLabel>> \o Join(Take(detected, SummaryLimit), <<",", " ">>) >>
                   ELSE <<>>
    IN  summary \o examples

\* is_git_repository
CheckRepo ==
    /\ pc = "start"
    /\ \E is_repo \in BOOLEAN :
          IF ~is_repo THEN Exit(1, "not_repo")
          ELSE pc' = "diff" /\ UNCHANGED <<exit_code, ending>>
    /\ UNCHANGED <<args, repo_log, cache_file, cache_file0, cache_reads,
                   staged_diff, profile, commit_history, guidelines_text,
                   suggested_message, presented, commands, generator_calls,
                   tmp_files, returncode>>
    /\ UNCHANGED <<cache_writes, user_approval>>

\* NextAfterDiff without the test for an empty diff
NextAfterDiff_NoEmptyCheck(diff, analyze) ==
    IF analyze THEN "analyze" ELSE "history"

\* lines 333-344: where main goes once the staged diff is known
NextAfterDiff(diff, analyze) ==
    IF diff = <<>> THEN "done"
    ELSE IF analyze THEN "analyze"
    ELSE "history"

\* 1. Get the staged diff
GetStagedDiff ==
    /\ pc = "diff"
    /\ \E d \in Diffs :
          /\ staged_diff' = StripText(d)
          /\ commands' = Append(commands, Cmd("diff", <<>>, None))
          /\ IF NextAfterDiff(StripText(d), args.analyze) = "done"
             THEN Exit(0, "no_staged")
             ELSE /\ pc' = NextAfterDiff(StripText(d), args.analyze)
                  /\ UNCHANGED <<exit_code, ending>>
    /\ UNCHANGED <<args, repo_log, cache_file, cache_file0, cache_reads,
                   profile, commit_history, guidelines_text,
                   suggested_message, presented, generator_calls, tmp_files,
                   returncode>>
    /\ UNCHANGED <<cache_writes, user_approval>>

\* If user asked to analyze, do it now and exit
AnalyzeOnly ==
    /\ pc = "analyze"
    /\ \E now \in Clock, outcome \in SaveOutcomes :
          LET a == AnalyzeRepo(cache_file, repo_log, args.history_depth, now, outcome)
          IN  /\ cache_file' = a.file
              /\ cache_writes' = Append(cache_writes, outcome)
              /\ commands' = Append(commands, a.command)
    /\ Exit(0, "analyzed")
    /\ UNCHANGED <<args, repo_log, cache_file0, cache_reads, staged_diff,
                   profile, commit_history, guidelines_text, suggested_message,
                   presented, generator_calls, tmp_files, returncode>>
    /\ UNCHANGED user_approval

\* lines 346-358: where the history context comes from
HistorySource(force_analyze, cached) ==
    IF force_analyze THEN "analysis"
    ELSE IF Truthy(cached) THEN "profile"
    ELSE "log"

\* FallbackHistory that leaves the context empty when git log fails
FallbackHistory_NoPlaceholder(log) == log.out

\* lines 363-368: the outcome of the fallback git log
FallbackHistory(log) == IF log.ok THEN log.out ELSE NoHistory

\* 2. Get commit history for context (use cache if available)
PrepareHistory ==
    /\ pc = "history"
    /\ LET loaded == IF args.force_analyze THEN JNull ELSE LoadStyleCache(cache_file)
           source == HistorySource(args.force_analyze, loaded)
       IN  /\ cache_reads' = IF args.force_analyze THEN cache_reads ELSE cache_reads + 1
           /\ CASE source = "profile" ->
                     /\ profile' = loaded
                     /\ UNCHANGED <<cache_file, commands, cache_writes>>
                     /\ IF ~IsDict(loaded)
                        THEN \* profile.get raises AttributeError, which nothing catches
                             /\ Exit(1, "crash")
                             /\ UNCHANGED commit_history
                        ELSE /\ commit_history' = ProfileContext(loaded.v)
                             /\ pc' = "guidelines"
                             /\ UNCHANGED <<exit_code, ending>>
                [] source = "log" ->
                     /\ profile' = loaded
                     /\ commands' = Append(commands, Cmd("log", <<FallbackDepth>>, None))
                     /\ commit_history' = FallbackHistory(GitLog(repo_log, FallbackDepth))
                     /\ pc' = "guidelines"
                     /\ UNCHANGED <<exit_code, ending, cache_file, cache_writes>>
                [] source = "analysis" ->
                     \E now \in Clock, outcome \in SaveOutcomes :
                       LET a == AnalyzeRepo(cache_file, repo_log, args.history_depth,
                                            now, outcome)
                       IN  /\ profile' = JDict(a.profile)
                           /\ cache_file' = a.file
                           /\ cache_writes' = Append(cache_writes, outcome)
                           /\ commands' = Append(commands, a.command)
                           /\ commit_history' = Get(a.profile, "history_examples", <<>>)
                           /\ pc' = "guidelines"
                           /\ UNCHANGED <<exit_code, ending>>
    /\ UNCHANGED <<args, repo_log, cache_file0, staged_diff, guidelines_text,
                   suggested_message, presented, generator_calls, tmp_files,
                   returncode>>
    /\ UNCHANGED user_approval

\* ------------------------------------------------------------- guidelines
Http == <<"h","t","t","p",":","/","/">>
Https == <<"h","t","t","p","s",":","/","/">>

InvalidByte == "xFF"
Replacement == "uFFFD"

\* b.decode('utf-8', errors='replace')
Decode(bytes) ==
    [i \in 1..Len(bytes) |-> IF bytes[i] = InvalidByte THEN Replacement ELSE bytes[i]]

IsValidUtf8(bytes) == \A i \in 1..Len(bytes) : bytes[i] # InvalidByte

\* what reading the referenced file or fetching the referenced URL gives
Resources ==
    { [ok |-> FALSE, body |-> <<>>] }
    \cup { [ok |-> TRUE, body |-> b] : b \in GuidelineBodies \cup {<<InvalidByte>>} }

\* lines 375-398: a URL is fetched, an existing path is read, anything else
\* is the text itself
Resolve(raw, res) ==
    IF StartsWith(raw, Http) \/ StartsWith(raw, Https)
    THEN [ok |-> res.ok, text |-> Decode(res.body)]
    ELSE IF raw \in ExistingPaths
    THEN [ok |-> res.ok /\ IsValidUtf8(res.body), text |-> res.body]
    ELSE [ok |-> TRUE, text |-> raw]

\* line 374: whether main treats --guidelines as provided
GuidelinesGiven(arg) == TruthyText(arg)

\* lines 413-415: without guidelines from the command line, take the
\* profile's
CachedFallback(text, prof) ==
    IF ~TruthyText(text) /\ Truthy(prof) /\ IsDict(prof)
    THEN IF "commit_guidelines" \in DOMAIN prof.v
         THEN Some(prof.v["commit_guidelines"]) ELSE None
    ELSE text

\* 3. Prepare guidelines
ResolveGuidelines ==
    /\ pc = "guidelines"
    /\ IF GuidelinesGiven(args.guidelines)
       THEN \E res \in Resources, now \in Clock, o1 \in SaveOutcomes, o2 \in SaveOutcomes :
              LET resolved == Resolve(args.guidelines.val, res)
                  fresh == ~Truthy(profile) \/ ~IsDict(profile)
                  a == AnalyzeRepo(cache_file, repo_log, args.history_depth, now, o1)
                  analysed == fresh /\ args.history_depth # 0
                  base == IF analysed THEN a.profile
                          ELSE IF fresh THEN EmptyDict
                          ELSE profile.v
                  updated == Put(base, "commit_guidelines", resolved.text)
              IN  IF ~resolved.ok
                  THEN /\ Exit(1, "guidelines_error")
                       /\ UNCHANGED <<profile, cache_file, commands, guidelines_text,
                                      cache_writes>>
                  ELSE /\ profile' = JDict(updated)
                       /\ cache_file' = SaveStyleCache(IF analysed THEN a.file ELSE cache_file,
                                                       updated, o2)
                       /\ cache_writes' = IF analysed THEN cache_writes \o <<o1, o2>>
                                          ELSE Append(cache_writes, o2)
                       /\ commands' = IF analysed THEN Append(commands, a.command)
                                      ELSE commands
                       /\ guidelines_text' = CachedFallback(Some(resolved.text), JDict(updated))
                       /\ pc' = "generate"
                       /\ UNCHANGED <<exit_code, ending>>
       ELSE /\ guidelines_text' = CachedFallback(None, profile)
            /\ pc' = "generate"
            /\ UNCHANGED <<exit_code, ending, profile, cache_file, commands,
                           cache_writes>>
    /\ UNCHANGED <<args, repo_log, cache_file0, cache_reads, staged_diff,
                   commit_history, suggested_message, presented,
                   generator_calls, tmp_files, returncode>>
    /\ UNCHANGED user_approval

\* ------------------------------------------------------------- generation
\* GOOGLE_API_KEY: unset, empty or set
EnvKeys == {None, Some(<<>>), Some(<<"k">>)}

\* what a prompt returns: EOFError/KeyboardInterrupt, or the typed text
Interrupted == [eof |-> TRUE, text |-> <<>>]
Typed(t) == [eof |-> FALSE, text |-> t]

KeyPrompts == {Interrupted, Typed(<<>>), Typed(<<"k">>)}

\* the service's answer: an exception, or a text
Answers == { [ok |-> FALSE, text |-> <<>>] } \cup { [ok |-> TRUE, text |-> r] : r \in Responses }

\* get_api_key and generate_commit_message: how the call ends
GenerationEnd(env_key, typed, configured, answer) ==
    LET prompted == ~TruthyText(env_key)
        api_key == IF prompted THEN typed.text ELSE env_key.val
    IN  IF prompted /\ typed.eof THEN "interrupt"
        ELSE IF Len(api_key) = 0 THEN "no_credential"
        ELSE IF ~configured THEN "config_error"
        ELSE IF ~answer.ok THEN "generation_error"
        ELSE "ok"

\* generate_commit_message, and the presentation of its result
Generate ==
    /\ pc = "generate"
    /\ generator_calls' = Append(generator_calls,
                                 [diff |-> staged_diff, history |-> commit_history,
                                  guidelines |-> guidelines_text])
    /\ \E env_key \in EnvKeys, typed \in KeyPrompts, configured \in BOOLEAN, answer \in Answers :
          LET end == GenerationEnd(env_key, typed, configured, answer)
          IN  IF end # "ok"
              THEN /\ Exit(1, end)
                   /\ UNCHANGED <<suggested_message, presented>>
              ELSE /\ suggested_message' = StripText(answer.text)
                   /\ presented' = TRUE
                   /\ pc' = "decide"
                   /\ UNCHANGED <<exit_code, ending>>
    /\ UNCHANGED <<args, repo_log, cache_file, cache_file0, cache_reads,
                   staged_diff, profile, commit_history, guidelines_text,
                   commands, tmp_files, returncode>>
    /\ UNCHANGED <<cache_writes, user_approval>>

\* ----------------------------------------------------------------- commit
\* what the user can type at the confirmation prompt
ConfirmPrompts ==
    {Interrupted} \cup
    { Typed(t) : t \in { <<"y">>, <<"Y">>, <<"n">>, <<"e">>, <<"E">>, <<>> } }

\* str.lower()
LowerText(t) == [i \in 1..Len(t) |-> Lower(t[i])]

\* return codes of git commit
ReturnCodes == {0, 1, 128}

\* the subject a successful commit puts on top of the history
Committed == <<"c","o","m","m","i","t","t","e","d">>

\* tempfile.NamedTemporaryFile(delete=False).name
TmpPath == <<"/tmp/tmpmsg">>

Dash == <<"-">>
FlagE == <<"-","e">>
FlagF == <<"-","F">>
FlagMessage == <<"-","-","m","e","s","s","a","g","e">>
FlagFile == <<"-","-","f","i","l","e">>

\* has_message_flag
HasMessageFlag(args_list) ==
    \E i \in 1..Len(args_list) :
        LET a == args_list[i]
        IN  \/ a = ArgM \/ StartsWith(a, ArgM)
            \/ a = FlagF \/ StartsWith(a, FlagF)
            \/ a = FlagMessage \/ StartsWith(a, FlagMessage)
            \/ a = FlagFile \/ StartsWith(a, FlagFile)

\* Decision that takes every answer but 'n' and 'e' for consent
Decision_DefaultYes(dry_run, auto_commit, typed) ==
    IF ~dry_run /\ ~auto_commit
    THEN IF typed.eof THEN "interrupt"
         ELSE IF LowerText(typed.text) = <<"e">> THEN "edit"
         ELSE IF LowerText(typed.text) = <<"n">> THEN "aborted"
         ELSE "commit"
    ELSE IF dry_run THEN "dry_run"
    ELSE "commit"

\* Decision with --auto-commit honoured before --dry-run is looked at
Decision_AutoCommitFirst(dry_run, auto_commit, typed) ==
    IF auto_commit THEN "commit"
    ELSE IF dry_run THEN "dry_run"
    ELSE IF typed.eof THEN "interrupt"
    ELSE IF LowerText(typed.text) = <<"e">> THEN "edit"
    ELSE IF LowerText(typed.text) = <<"y">> THEN "commit"
    ELSE "aborted"

\* lines 431-438, 476-484, 543: what main does with the suggestion
Decision(dry_run, auto_commit, typed) ==
    IF ~dry_run /\ ~auto_commit
    THEN IF typed.eof THEN "interrupt"
         ELSE IF LowerText(typed.text) = <<"e">> THEN "edit"
         ELSE IF LowerText(typed.text) = <<"y">> THEN "commit"
         ELSE "aborted"
    ELSE IF dry_run THEN "dry_run"
    ELSE "commit"

\* line 433: whether the user is asked
Prompted(dry_run, auto_commit) == ~dry_run /\ ~auto_commit

\* 4. Handle auto-commit or user confirmation
Decide ==
    /\ pc = "decide"
    /\ \E typed \in ConfirmPrompts :
          LET decision == Decision(args.dry_run, args.auto_commit, typed)
          IN  /\ user_approval' = IF Prompted(args.dry_run, args.auto_commit) /\ ~typed.eof
                                  THEN Some(LowerText(typed.text))
                                  ELSE user_approval
              /\ CASE decision = "interrupt" -> Exit(1, decision)
                   [] decision \in {"dry_run", "aborted"} -> Exit(0, decision)
                   [] OTHER -> pc' = decision /\ UNCHANGED <<exit_code, ending>>
    /\ UNCHANGED <<args, repo_log, cache_file, cache_file0, cache_reads,
                   staged_diff, profile, commit_history, guidelines_text,
                   suggested_message, presented, commands, generator_calls,
                   tmp_files, returncode>>
    /\ UNCHANGED cache_writes

\* lines 452-453: the editor commit
EditCommand(tmp, unknown_args) ==
    Cmd("commit", <<FlagE, FlagF, tmp>> \o unknown_args, None)

\* lines 438-457: write the message file and start git commit -e -F <file>
StartEdit ==
    /\ pc = "edit"
    /\ tmp_files' = tmp_files \cup {[path |-> TmpPath, content |-> suggested_message]}
    /\ commands' = Append(commands, EditCommand(TmpPath, args.unknown_args))
    /\ pc' = "editing"
    /\ UNCHANGED <<exit_code, ending, args, repo_log, cache_file, cache_file0,
                   cache_reads, staged_diff, profile, commit_history,
                   guidelines_text, suggested_message, presented,
                   generator_calls, returncode>>
    /\ UNCHANGED <<cache_writes, user_approval>>

\* EditExitCode with every failure of the editor commit reported as 1
EditExitCode_FlatFailure(rc, logged) ==
    IF rc = 0 /\ logged THEN 0 ELSE 1

\* lines 458-463, 475: the exit status after the editor commit returned
EditExitCode(rc, logged) ==
    IF rc = 0 THEN (IF logged THEN 0 ELSE 1) ELSE rc

\* lines 468-474: the files left once the finally clause has run
CleanUp(files, tmp) == { f \in files : f.path # tmp }

\* lines 458-475: the editor commit returned
FinishEdit ==
    /\ pc = "editing"
    /\ \E rc \in ReturnCodes :
          /\ returncode' = rc
          /\ IF rc = 0
             THEN /\ repo_log' = <<Committed>> \o repo_log
                  /\ commands' = Append(commands, Cmd("log", <<1>>, None))
                  /\ Exit(EditExitCode(rc, GitLog(<<Committed>> \o repo_log, 1).ok),
                          "edit_committed")
             ELSE /\ Exit(EditExitCode(rc, FALSE), "edit_failed")
                  /\ UNCHANGED <<repo_log, commands>>
    /\ tmp_files' = CleanUp(tmp_files, TmpPath)
    /\ UNCHANGED <<args, cache_file, cache_file0, cache_reads,
                   staged_diff, profile, commit_history, guidelines_text,
                   suggested_message, presented, generator_calls>>
    /\ UNCHANGED <<cache_writes, user_approval>>

\* lines 507-528: the commit on the accept and auto-commit paths
CommitCommand(unknown_args, message) ==
    IF HasMessageFlag(unknown_args)
    THEN Cmd("commit", unknown_args, None)
    ELSE Cmd("commit", unknown_args \o <<FlagF, Dash>>, Some(message))

\* lines 484-542: commit with the forwarded arguments
Commit ==
    /\ pc = "commit"
    /\ \E rc \in ReturnCodes :
          LET commit_cmd == CommitCommand(args.unknown_args, suggested_message)
          IN  IF rc = 0
              THEN /\ repo_log' = <<Committed>> \o repo_log
                   /\ commands' = commands \o <<commit_cmd, Cmd("log", <<1>>, None)>>
                   /\ IF GitLog(<<Committed>> \o repo_log, 1).ok
                      THEN Exit(0, "committed")
                      ELSE Exit(1, "command_error")
              ELSE /\ commands' = Append(commands, commit_cmd)
                   /\ Exit(1, "commit_failed")
                   /\ UNCHANGED repo_log
    /\ UNCHANGED <<args, cache_file, cache_file0, cache_reads,
                   staged_diff, profile, commit_history, guidelines_text,
                   suggested_message, presented, generator_calls, tmp_files,
                   returncode>>
    /\ UNCHANGED <<cache_writes, user_approval>>

Next ==
    \/ CheckRepo
    \/ GetStagedDiff
    \/ AnalyzeOnly
    \/ PrepareHistory
    \/ ResolveGuidelines
    \/ Generate
    \/ Decide
    \/ StartEdit
    \/ FinishEdit
    \/ Commit

Spec == Init /\ [][Next]_vars

\* ---------------------------------------------- runs of the analysis alone
\* the characters that tell the prefixes of the cycling history apart
PrefixMarks == <<"0","1","2","3","4","5","6","7","8","9","a","b","c">>

Indented == <<" ","f","i","x",":","a">>

\* the i-th most recent subject of a repository of the given shape
PatternSubject(pattern, i) ==
    CASE pattern = "same" -> FixA
      [] pattern = "cycle" ->
            IF i % 14 = 0 THEN EmptySubject
            ELSE <<"t", PrefixMarks[i % 14], ":", "x">>
      [] pattern = "rising" ->
            IF i = 1 THEN <<"a",":","x">>
            ELSE IF i <= 3 THEN <<"b",":","x">>
            ELSE <<"c",":","x">>
      [] pattern = "mixed" ->
            << Indented, EmptySubject, Wip, NoToken, Spaced, BlankSubject, FeatB, FixA >>[((i - 1) % 8) + 1]
      [] pattern = "plain" ->
            << FixA, Wip, NoToken, Spaced, FeatB, FixA, Wip >>[((i - 1) % 7) + 1]

Patterns == {"same", "cycle", "rising", "mixed", "plain"}

AnalysisLogs == { [i \in 1..k |-> PatternSubject(p, i)] : p \in Patterns, k \in 0..MaxLog }

AnalysisDepths == {0, 2, MaxLog, DefaultDepth}

InitAnalyze ==
    /\ args \in [auto_commit : {FALSE}, dry_run : {FALSE}, analyze : {TRUE},
                 force_analyze : BOOLEAN, history_depth : AnalysisDepths,
                 guidelines : {None}, unknown_args : {<<>>}]
    /\ repo_log \in AnalysisLogs
    /\ cache_file \in { [kind |-> "missing"], [kind |-> "json", val |-> JDict(OldProfileG)] }
    /\ InitLocals

NextAnalyze ==
    \/ CheckRepo
    \/ GetStagedDiff
    \/ AnalyzeOnly

SpecAnalyze == InitAnalyze /\ [][NextAnalyze]_vars

\* ------------------------------------------------------------- properties
IsCommit(c) == c.name = "commit"

NoCommit == \A i \in 1..Len(commands) : ~IsCommit(commands[i])

\* git diff --staged has been run
DiffRead == Len(commands) >= 1 /\ commands[1].name = "diff"

\* C1: once the staged diff has been read and is empty, the run is over with
\* exit code 0, and neither the message generator nor a commit command has
\* been invoked, whatever the flags.
C1_EmptyDiffIsNoOp ==
    (DiffRead /\ staged_diff = <<>>) =>
        /\ pc = "done"
        /\ exit_code = 0
        /\ generator_calls = <<>>
        /\ NoCommit

C1_Witness ==
    /\ DiffRead /\ staged_diff = <<>> /\ pc = "done"
    /\ args.force_analyze /\ args.auto_commit /\ args.analyze
    /\ args.guidelines.some

\* C2: with --dry-run no commit command is ever issued and neither the
\* commit nor the edit step is entered, whatever --auto-commit says and
\* whatever the user could answer; once the message has been presented the
\* run only decides and ends, with exit code 0.
C2_DryRunNeverCommits ==
    args.dry_run =>
        /\ NoCommit
        /\ pc \notin {"edit", "editing", "commit"}
        /\ presented => pc \in {"decide", "done"}
        /\ (presented /\ pc = "done") => (exit_code = 0 /\ ending = "dry_run")

C2_Witness ==
    /\ args.dry_run /\ args.auto_commit
    /\ staged_diff # <<>> /\ presented
    /\ Len(generator_calls) = 1
    /\ pc = "done" /\ exit_code = 0

\* C3: when the forwarded arguments hold a message flag, every commit
\* command of the run carries exactly the forwarded arguments and no
\* generated message.
C3_MessageFlagPassesThrough ==
    HasMessageFlag(args.unknown_args) =>
        \A i \in 1..Len(commands) :
            IsCommit(commands[i]) =>
                /\ commands[i].argv = args.unknown_args
                /\ commands[i].stdin = None

\* C3 restricted to the accept and auto-commit paths
C3_AcceptPathPassesThrough ==
    (HasMessageFlag(args.unknown_args) /\ returncode = Running /\ pc # "editing") =>
        \A i \in 1..Len(commands) :
            IsCommit(commands[i]) =>
                /\ commands[i].argv = args.unknown_args
                /\ commands[i].stdin = None

\* the cache file held a profile with guidelines when the run started
CacheHadGuidelines ==
    /\ cache_file0.kind = "json"
    /\ IsDict(cache_file0.val)
    /\ "commit_guidelines" \in DOMAIN cache_file0.val.v

\* C4: when --guidelines is given and the cached profile holds guidelines
\* too, the guidelines handed to the message generator are the text the
\* argument resolves to, never the cached text.
C4_ExplicitGuidelinesWin ==
    (args.guidelines.some /\ CacheHadGuidelines) =>
        \A i \in 1..Len(generator_calls) :
            \E res \in Resources :
                /\ Resolve(args.guidelines.val, res).ok
                /\ generator_calls[i].guidelines = Some(Resolve(args.guidelines.val, res).text)

\* C4 for arguments that are not the empty string
C4_NonEmptyArgumentWins ==
    (TruthyText(args.guidelines) /\ CacheHadGuidelines) =>
        \A i \in 1..Len(generator_calls) :
            \E res \in Resources :
                /\ Resolve(args.guidelines.val, res).ok
                /\ generator_calls[i].guidelines = Some(Resolve(args.guidelines.val, res).text)

\* the cache file held a non-empty JSON object when the run started
CacheHadProfile ==
    /\ cache_file0.kind = "json"
    /\ IsDict(cache_file0.val)
    /\ Truthy(cache_file0.val)

\* C5: no content of the cache file ends the run; a file that holds no
\* profile object loads as an absent profile and the run goes on to the
\* guidelines and to generation.
C5_CacheNeverFatal ==
    /\ ending # "crash"
    /\ (cache_reads > 0 /\ ~CacheHadProfile) =>
          /\ pc # "history"
          /\ pc = "guidelines" => ~Truthy(profile)

\* C5 for cache files that load as a false value or as an object
C5_FalsyOrObjectNeverFatal ==
    (cache_file0.kind = "json" => (IsDict(cache_file0.val) \/ ~Truthy(cache_file0.val))) =>
        /\ ending # "crash"
        /\ (cache_reads > 0 /\ ~CacheHadProfile) =>
              /\ pc # "history"
              /\ pc = "guidelines" => ~Truthy(profile)

\* C6: a run with --analyze that got as far as reading the staged diff ends
\* with exit code 0 after a git log at the requested depth, with the profile
\* in the cache file when the write succeeded, and without a generator call
\* or a commit, whatever is staged.
C6_AnalyzeAlwaysAnalyzes ==
    (args.analyze /\ DiffRead /\ pc = "done") =>
        /\ exit_code = 0
        /\ generator_calls = <<>>
        /\ NoCommit
        /\ \E i \in 1..Len(commands) :
              commands[i] = Cmd("log", <<args.history_depth>>, None)
        /\ cache_file # cache_file0 =>
              \/ cache_file.kind = "notjson"
              \/ /\ cache_file.kind = "json"
                 /\ IsDict(cache_file.val)
                 /\ "commit_count_scanned" \in DOMAIN cache_file.val.v

\* C6 for runs with staged changes
C6_AnalyzeWithStagedChanges ==
    (args.analyze /\ DiffRead /\ pc = "done" /\ staged_diff # <<>>) =>
        /\ exit_code = 0
        /\ generator_calls = <<>>
        /\ NoCommit
        /\ \E i \in 1..Len(commands) :
              commands[i] = Cmd("log", <<args.history_depth>>, None)

\* C8: a run that ends because it is not in a repository, has nothing
\* staged or has no credential leaves the cache file as it found it.
C8_PreconditionFailureKeepsCache ==
    ending \in {"not_repo", "no_staged", "no_credential"} => cache_file = cache_file0

\* C8 without the credential
C8_EarlyFailureKeepsCache ==
    ending \in {"not_repo", "no_staged"} => cache_file = cache_file0

C9_WitnessSuccess ==
    /\ pc = "done"
    /\ returncode = 0
    /\ exit_code = 0
    /\ ending = "edit_committed"

\* history preparation is over and no commit has changed the repository
HistoryPrepared == pc \in {"guidelines", "generate", "decide", "edit", "editing", "commit"}

\* the step that prepares the history by the fallback git log
FallbackStep ==
    /\ pc = "history"
    /\ ~args.force_analyze
    /\ ~Truthy(LoadStyleCache(cache_file))

Analyzed ==
    /\ ending = "analyzed"
    /\ cache_file.kind = "json"
    /\ cache_file # cache_file0

\* the subject s starts with the token p and a colon right behind it
HasPrefix(s, p) ==
    /\ Len(p) >= 1
    /\ Len(s) > Len(p)
    /\ \A j \in 1..Len(p) : s[j] = p[j] /\ p[j] \in TokenChars
    /\ s[Len(p) + 1] = ":"

\* the subject starts with some token and a colon right behind it
HasSomePrefix(s) == \E n \in 1..Len(s) : HasPrefix(s, SubSeq(s, 1, n))

\* the lines with a character that is not whitespace
InkedLines(lines) ==
    { i \in 1..Len(lines) : \E j \in 1..Len(lines[i]) : lines[i][j] \notin Whitespace }

\* the j-th smallest element of a set of numbers
Nth(S, j) == CHOOSE i \in S : Cardinality({ m \in S : m <= i }) = j

\* detected_types of profile P counts, prefix by prefix, the lines kept
DetectedCounts(P, lines, kept) ==
    LET detected == P.detected_types
    IN  /\ \A a \in 1..Len(detected) :
              /\ detected[a].n = Cardinality({ i \in kept : HasPrefix(lines[i], detected[a].p) })
              /\ detected[a].n >= 1
              /\ \A b \in 1..Len(detected) : detected[a].p = detected[b].p => a = b
        /\ \A i \in kept :
              HasSomePrefix(lines[i]) =>
                  \E a \in 1..Len(detected) : HasPrefix(lines[i], detected[a].p)

\* top_prefixes of profile P: at most ten detected prefixes, by falling count
TopPrefixes(P) ==
    LET detected == P.detected_types
        top == P.top_prefixes
        CountOf(q) == (CHOOSE a \in 1..Len(detected) : detected[a].p = q)
    IN  /\ Len(top) <= 10
        /\ \A i \in 1..Len(top) : \E a \in 1..Len(detected) : detected[a].p = top[i]
        /\ \A i \in 1..Len(top) : \A j \in 1..Len(top) :
              i < j => /\ top[i] # top[j]
                       /\ detected[CountOf(top[i])].n >= detected[CountOf(top[j])].n

\* C7 as claimed: every one of the K <= N subjects is counted and kept.
C7_EverySubjectCounted ==
    (Analyzed /\ Len(repo_log) <= args.history_depth) =>
        LET P == cache_file.val.v
            all == 1..Len(repo_log)
        IN  /\ P.commit_count_scanned = Len(repo_log)
            /\ P.history_examples = Take(repo_log, 25)
            /\ DetectedCounts(P, repo_log, all)
            /\ TopPrefixes(P)
            /\ Len(repo_log) = 0 => P.avg_subject_len.num = 0

\* C7: on a history of K <= N commits the profile counts the non-blank
\* lines of the stripped git log output, keeps the first 25 of them in log
\* order as examples, counts for each prefix exactly the kept lines that
\* start with that token and a colon, lists at most 10 prefixes by falling
\* count, and has average 0 when no line is kept.
C7_NonBlankSubjectsCounted ==
    (Analyzed /\ Len(repo_log) <= args.history_depth) =>
        LET P == cache_file.val.v
            lines == GitLog(repo_log, args.history_depth).out
            kept == InkedLines(lines)
        IN  /\ P.commit_count_scanned = Cardinality(kept)
            /\ Len(P.history_examples) = Min(Cardinality(kept), 25)
            /\ \A j \in 1..Len(P.history_examples) :
                  P.history_examples[j] = lines[Nth(kept, j)]
            /\ DetectedCounts(P, lines, kept)
            /\ TopPrefixes(P)
            /\ Cardinality(kept) = 0 => P.avg_subject_len.num = 0

C7_Witness ==
    /\ Analyzed
    /\ Len(repo_log) <= args.history_depth
    /\ cache_file.val.v.commit_count_scanned > 25
    /\ cache_file.val.v.commit_count_scanned < Len(repo_log)
    /\ Len(cache_file.val.v.history_examples) = 25
    /\ Len(cache_file.val.v.detected_types) > 10
    /\ Len(cache_file.val.v.top_prefixes) = 10

\* the guidelines step is over and the run went on to generation
GuidelinesStepDone ==
    \/ pc \in {"generate", "decide", "edit", "editing", "commit"}
    \/ pc = "done" /\ Len(generator_calls) > 0

\* every write of the cache file so far succeeded
AllWritesOk == \A i \in 1..Len(cache_writes) : cache_writes[i] = "ok"

\* the fields analyze_repo gives a profile
AnalysisFields ==
    {"created_at", "commit_count_scanned", "history_examples", "detected_types",
     "top_prefixes", "avg_subject_len"}

\* the cache file holds the profile it held at the start, but for the
\* guidelines field, which holds a text the argument resolves to
OnlyGuidelinesUpdated ==
    /\ cache_file.kind = "json"
    /\ IsDict(cache_file.val)
    /\ LET old == cache_file0.val.v
           new == cache_file.val.v
       IN  /\ DOMAIN new = DOMAIN old \cup {"commit_guidelines"}
           /\ \A k \in DOMAIN old \ {"commit_guidelines"} : new[k] = old[k]
           /\ \E res \in Resources :
                 /\ Resolve(args.guidelines.val, res).ok
                 /\ new["commit_guidelines"] = Resolve(args.guidelines.val, res).text

\* the cache file holds a profile of this run's analysis and nothing of the
\* profile it held before; guidelines are in it only if given in this run
ReplacedWholesale ==
    /\ cache_file.kind = "json"
    /\ IsDict(cache_file.val)
    /\ LET new == cache_file.val.v
       IN  /\ AnalysisFields \subseteq DOMAIN new
           /\ DOMAIN new \subseteq AnalysisFields \cup {"commit_guidelines"}
           /\ new["created_at"] \in Clock
           /\ pc # "done" =>
                 new["commit_count_scanned"] =
                     Cardinality(InkedLines(GitLog(repo_log, args.history_depth).out))
           /\ "commit_guidelines" \in DOMAIN new =>
                 /\ args.guidelines.some
                 /\ GuidelinesStepDone

\* a run that analysed the history anew: --analyze, or --force-analyze
Reanalysed ==
    \/ ending = "analyzed"
    \/ args.force_analyze /\ (HistoryPrepared \/ (pc = "done" /\ Len(commands) >= 2))

\* C11: with --guidelines, without --force-analyze and with a cached
\* profile, the profile in the cache file after the guidelines step is the
\* cached one in every field but the guidelines, which hold the resolved
\* text; after a re-analysis the cache file holds the fresh profile alone,
\* with guidelines only if --guidelines was given in the same run (cache
\* writes succeeding).
C11_GuidelinesUpdatedAlone ==
    /\ (args.guidelines.some /\ ~args.force_analyze /\ CacheHadProfile
            /\ GuidelinesStepDone /\ AllWritesOk)
          => OnlyGuidelinesUpdated
    /\ (Reanalysed /\ AllWritesOk) => ReplacedWholesale

\* C11 for --guidelines arguments that are not the empty string
C11_NonEmptyGuidelinesUpdatedAlone ==
    /\ (TruthyText(args.guidelines) /\ ~args.force_analyze /\ CacheHadProfile
            /\ GuidelinesStepDone /\ AllWritesOk)
          => OnlyGuidelinesUpdated
    /\ (Reanalysed /\ AllWritesOk) => ReplacedWholesale

\* the number of commit commands among cmds
CommitsIn(cmds) == Cardinality({ i \in 1..Len(cmds) : IsCommit(cmds[i]) })

\* --auto-commit was given, or the user answered y or e
Approved ==
    \/ args.auto_commit
    \/ user_approval.some /\ user_approval.val \in { <<"y">>, <<"e">> }

\* endings after which nothing may have been committed
NoCommitEndings ==
    {"not_repo", "no_staged", "analyzed", "crash", "guidelines_error", "interrupt",
     "no_credential", "config_error", "generation_error", "dry_run", "aborted"}

\* all that has to precede a commit has happened
ReadyToCommit ==
    /\ DiffRead
    /\ staged_diff # <<>>
    /\ GuidelinesGiven(args.guidelines) => guidelines_text.some
    /\ Len(generator_calls) = 1
    /\ presented
    /\ Approved
    /\ ~args.dry_run

\* C12: a run issues at most one commit command, and only after the diff
\* was read and non-empty, requested guidelines were resolved, the generator
\* was called and its message presented, and --auto-commit or an answer y or
\* e gave consent, each of these after the one before; no commit command
\* exists in a run that ended on a failure, an interrupt, a refusal or a
\* dry run.
C12_CommitOnlyAfterConsent ==
    /\ [](/\ CommitsIn(commands) <= 1
          /\ CommitsIn(commands) = 1 => ReadyToCommit
          /\ ending \in NoCommitEndings => NoCommit)
    /\ [][/\ CommitsIn(commands') > CommitsIn(commands) =>
                (NoCommit /\ ReadyToCommit /\ pc \in {"edit", "commit"})
          /\ user_approval' # user_approval => (presented /\ NoCommit)
          /\ (presented' /\ ~presented) =>
                (generator_calls = <<>> /\ Len(generator_calls') = 1 /\ pc = "generate")
          /\ generator_calls' # generator_calls =>
                (pc = "generate" /\ DiffRead /\ staged_diff # <<>>
                    /\ (GuidelinesGiven(args.guidelines) => guidelines_text.some))
          /\ guidelines_text' # guidelines_text => (DiffRead /\ staged_diff # <<>>)
         ]_vars

C12_Witness ==
    /\ pc = "done"
    /\ CommitsIn(commands) = 1
    /\ ~args.auto_commit
    /\ user_approval = Some(<<"e">>)
    /\ GuidelinesGiven(args.guidelines)
    /\ ending = "edit_committed"

====
